---- MODULE Spec2Model ----
(***************************************************************************)
(* FoodSnap Tutor: the App component's request lifecycle (App.tsx) and the *)
(* analysis client (services/geminiService.ts).                            *)
(*                                                                         *)
(* JavaScript strings are sequences of tokens, so that concatenation,      *)
(* split and the MIME regular expression are computed and not assumed.     *)
(* null / undefined state values are the record Null.                      *)
(*                                                                         *)
(* React 19 batches the setState calls of one handler or of one promise    *)
(* continuation into one render, and flushes the effects of a render that  *)
(* a discrete event (click, change, drop) caused before any other task     *)
(* runs: a user action together with the effect it triggers is one step.   *)
(***************************************************************************)
EXTENDS Integers, Sequences, FiniteSets, TLC

VARIABLES
  imageFile,   \* useState<File | null>
  analysis,    \* useState<FoodAnalysis | null>
  isLoading,   \* useState<boolean>
  error,       \* useState<string | null>
  imageUrl,    \* useState<string | null>
  calls,       \* the performAnalysis() invocations, in the order they were started;
               \* the result of a settled one is kept while none was started after it
  objectUrls,  \* objectUrls[u]: how often URL.revokeObjectURL was called on blob URL u
  mounted,     \* the App component is mounted
  lastSelection \* the argument of handleFileSelect when the latest step was a call
                \* of it, NoSelection after any other step

vars == <<imageFile, analysis, isLoading, error, imageUrl, calls, objectUrls, mounted,
          lastSelection>>

\* Number of File objects (selected files and the copies Retry makes) in one run.
MaxFiles == 3

Null == [null |-> TRUE]

\* undefined, where the code can tell it from null
Undefined == [undefined |-> TRUE]

-----------------------------------------------------------------------------
(* Strings *)

\* first index of token t in s, 0 when absent
IndexOf(s, t) ==
  IF \E i \in 1..Len(s) : s[i] = t
    THEN CHOOSE i \in 1..Len(s) : s[i] = t /\ \A j \in 1..(i-1) : s[j] # t
    ELSE 0

RECURSIVE Split(_, _)
\* String.prototype.split(sep)
Split(s, sep) ==
  LET i == IndexOf(s, sep) IN
    IF i = 0 THEN <<s>>
    ELSE <<SubSeq(s, 1, i-1)>> \o Split(SubSeq(s, i+1, Len(s)), sep)

\* s contains t as a substring
Contains(s, t) ==
  \E i \in 0..(Len(s) - Len(t)) : SubSeq(s, i+1, i+Len(t)) = t

-----------------------------------------------------------------------------
(* Files and FileReader *)

\* What the user can pick: a PNG photo, and an empty file of unknown type.
FileChoices ==
  { [name |-> "pancakes.png", type |-> <<"image/png">>, content |-> <<77, 97, 110>>],
    [name |-> "blob",         type |-> <<>>,            content |-> <<>>] }

B64Alphabet ==
  << "A","B","C","D","E","F","G","H","I","J","K","L","M","N","O","P",
     "Q","R","S","T","U","V","W","X","Y","Z","a","b","c","d","e","f",
     "g","h","i","j","k","l","m","n","o","p","q","r","s","t","u","v",
     "w","x","y","z","0","1","2","3","4","5","6","7","8","9","+","/" >>

B64Char(n) == B64Alphabet[n + 1]

RECURSIVE Base64(_)
\* base64 of a byte sequence, as FileReader.readAsDataURL produces it
Base64(bytes) ==
  IF Len(bytes) = 0 THEN <<>>
  ELSE IF Len(bytes) = 1 THEN
    << B64Char(bytes[1] \div 4), B64Char((bytes[1] % 4) * 16), "=", "=" >>
  ELSE IF Len(bytes) = 2 THEN
    << B64Char(bytes[1] \div 4),
       B64Char((bytes[1] % 4) * 16 + bytes[2] \div 16),
       B64Char((bytes[2] % 16) * 4), "=" >>
  ELSE
    << B64Char(bytes[1] \div 4),
       B64Char((bytes[1] % 4) * 16 + bytes[2] \div 16),
       B64Char((bytes[2] % 16) * 4 + bytes[3] \div 64),
       B64Char(bytes[3] % 64) >> \o Base64(SubSeq(bytes, 4, Len(bytes)))

\* "data:<media type>;base64,<payload>"
DataUrl(mediaType, payload) ==
  <<"data", ":">> \o mediaType \o <<";", "base64", ",">> \o payload

\* What reader.readAsDataURL(file) can end with: the error event, or reader.result.
\* Browsers differ on a blob without a type (a default media type, or none) and
\* on an empty blob (some return the bare string "data:").
ReaderOutcomes(file) ==
  { [loaded |-> FALSE, readerError |-> <<"NotReadableError">>] }
  \cup
  { [loaded |-> TRUE, result |-> r] : r \in
      (IF file.type # <<>>
         THEN { DataUrl(file.type, Base64(file.content)) }
         ELSE { DataUrl(<<"application/octet-stream">>, Base64(file.content)),
                DataUrl(<<>>, Base64(file.content)) })
      \cup
      (IF file.content = <<>> THEN { <<"data", ":">> } ELSE {}) }

\* a FileList is the record of its items; files[k] is undefined past the end
FileAt(files, k) ==
  IF k < Len(files.items) THEN files.items[k + 1] ELSE Undefined

\* the file-less arguments of handleFileSelect: null, and an empty FileList
EmptySelections == { Null, [items |-> <<>>] }

\* the latest step was no handleFileSelect call
NoSelection == [none |-> TRUE]

\* a thrown Error object
JsError(message) == [isError |-> TRUE, message |-> message]

\* arr[0].match(/:(.*?);/): the text between the first ':' that a ';' follows
\* and the nearest such ';'; Null when there is no match
MimeMatch(head) ==
  LET starts == { i \in 1..Len(head) :
                    head[i] = ":" /\ \E j \in (i+1)..Len(head) : head[j] = ";" }
  IN IF starts = {} THEN Null
     ELSE LET i == CHOOSE a \in starts : \A b \in starts : a <= b
              j == CHOOSE a \in (i+1)..Len(head) :
                     head[a] = ";" /\ \A b \in (i+1)..(a-1) : head[b] # ";"
          IN [group |-> SubSeq(head, i+1, j-1)]

\* FileToPart that returns the whole data URL as the payload
FileToPart_WholeUrl(outcome) ==
  IF ~outcome.loaded
    THEN [ok |-> FALSE,
          thrown |-> [isError |-> FALSE, readerError |-> outcome.readerError]]
  ELSE
    LET arr == Split(outcome.result, ",") IN
      IF Len(arr) < 2
        THEN [ok |-> FALSE, thrown |-> JsError(<<"Invalid data URL">>)]
      ELSE
        LET mimeMatch == MimeMatch(arr[1]) IN
          IF mimeMatch = Null \/ mimeMatch.group = <<>>
            THEN [ok |-> FALSE,
                  thrown |-> JsError(<<"Could not parse MIME type from data URL">>)]
            ELSE [ok |-> TRUE,
                  value |-> [mimeType |-> mimeMatch.group, data |-> outcome.result]]

\* fileToPart: the outcome of the FileReader promise, then the data URL split
FileToPart(outcome) ==
  IF ~outcome.loaded
    THEN [ok |-> FALSE,
          thrown |-> [isError |-> FALSE, readerError |-> outcome.readerError]]
  ELSE
    LET arr == Split(outcome.result, ",") IN
      IF Len(arr) < 2
        THEN [ok |-> FALSE, thrown |-> JsError(<<"Invalid data URL">>)]
      ELSE
        LET mimeMatch == MimeMatch(arr[1]) IN
          IF mimeMatch = Null \/ mimeMatch.group = <<>>
            THEN [ok |-> FALSE,
                  thrown |-> JsError(<<"Could not parse MIME type from data URL">>)]
            ELSE [ok |-> TRUE,
                  value |-> [mimeType |-> mimeMatch.group, data |-> arr[2]]]

-----------------------------------------------------------------------------
(* The analysis client *)

\* required: [...] of the response schema
RequiredFields == {"isFood", "dishName", "recipe", "nutrition", "healthierVariation"}

PancakesJson ==
  [isFood |-> TRUE, dishName |-> "Pancakes",
   recipe |-> [ingredients |-> <<"flour", "egg">>, steps |-> <<"mix", "cook">>],
   nutrition |-> [calories |-> "350 kcal", protein |-> "8g", carbs |-> "50g", fat |-> "10g"],
   healthierVariation |-> "Use whole wheat flour."]

CarJson ==
  [isFood |-> FALSE, dishName |-> "Not a food item",
   recipe |-> [ingredients |-> <<>>, steps |-> <<>>],
   nutrition |-> [calories |-> "", protein |-> "", carbs |-> "", fat |-> ""],
   healthierVariation |-> ""]

PartialJson == [isFood |-> TRUE, dishName |-> "Pancakes"]

DonutJson ==
  [isFood |-> TRUE, dishName |-> "Donut",
   recipe |-> [ingredients |-> <<"dough", "sugar">>, steps |-> <<"fry", "glaze">>],
   nutrition |-> [calories |-> "450 kcal", protein |-> "5g", carbs |-> "55g", fat |-> "25g"],
   healthierVariation |-> "Bake instead of frying.",
   friendlyAdvice |-> "Enjoy in moderation."]

\* The JSON documents the upstream service is taken to answer with
JsonDocs == {"{pancakes}", "{car}", "{donut}", "{isFood,dishName}", "null"}

Whitespace == {" ", "\n"}

RECURSIVE TrimStart(_)
TrimStart(s) ==
  IF Len(s) > 0 /\ s[1] \in Whitespace THEN TrimStart(Tail(s)) ELSE s

RECURSIVE TrimEnd(_)
TrimEnd(s) ==
  IF Len(s) > 0 /\ s[Len(s)] \in Whitespace THEN TrimEnd(SubSeq(s, 1, Len(s) - 1)) ELSE s

\* String.prototype.trim()
Trim(s) == TrimEnd(TrimStart(s))

\* JSON.parse: the value of a text that is one JSON document, a SyntaxError otherwise
JsonParse(text) ==
  IF Len(text) = 1 /\ text[1] \in JsonDocs
    THEN [ok |-> TRUE,
          value |-> CASE text[1] = "{pancakes}"        -> PancakesJson
                      [] text[1] = "{car}"             -> CarJson
                      [] text[1] = "{donut}"           -> DonutJson
                      [] text[1] = "{isFood,dishName}" -> PartialJson
                      [] text[1] = "null"              -> Null]
    ELSE [ok |-> FALSE]

BlockReasons == {"SAFETY", "PROHIBITED_CONTENT"}

\* How ai.models.generateContent can settle: it rejects (network, API error),
\* or resolves with a response that is blocked (no text) or carries a text.
UpstreamOutcomes ==
  { [rejected |-> TRUE, thrown |-> JsError(<<"Failed to fetch">>)] }
  \cup
  { [rejected |-> FALSE, blockReason |-> b, text |-> <<>>] : b \in BlockReasons }
  \cup
  { [rejected |-> FALSE, blockReason |-> "", text |-> t] : t \in
      { <<"{pancakes}", "\n">>, <<"{car}">>, <<"{donut}">>, <<"{isFood,dishName}">>,
        <<"null">>,
        <<"Sorry,", " ", "I", " ", "cannot">> } }

BlockedMessage(reason) ==
  <<"Request was blocked due to: ", reason, ". This may be due to safety settings.">>

InvalidResponseMessage ==
  <<"The AI returned an invalid response. Please try again with a clearer image.">>

\* IsBlocked with the blockReason test left out
IsBlocked_Never(response) == FALSE

\* response.promptFeedback?.blockReason is set
IsBlocked(response) == response.blockReason # ""

\* HandleUpstream that fills a missing friendlyAdvice with an empty string
HandleUpstream_Defaults(upstream) ==
  IF upstream.rejected
    THEN [ok |-> FALSE, thrown |-> upstream.thrown]
  ELSE IF IsBlocked(upstream)
    THEN [ok |-> FALSE, thrown |-> JsError(BlockedMessage(upstream.blockReason))]
  ELSE
    LET parsed == JsonParse(Trim(upstream.text)) IN
      IF parsed.ok
        THEN [ok |-> TRUE,
              value |-> IF parsed.value = Null THEN Null
                        ELSE parsed.value @@ [friendlyAdvice |-> ""]]
        ELSE [ok |-> FALSE, thrown |-> JsError(InvalidResponseMessage)]

\* analyzeFoodImage from the settlement of generateContent on
HandleUpstream(upstream) ==
  IF upstream.rejected
    THEN [ok |-> FALSE, thrown |-> upstream.thrown]
  ELSE IF IsBlocked(upstream)
    THEN [ok |-> FALSE, thrown |-> JsError(BlockedMessage(upstream.blockReason))]
  ELSE
    LET parsed == JsonParse(Trim(upstream.text)) IN
      IF parsed.ok
        THEN [ok |-> TRUE, value |-> parsed.value]
        ELSE [ok |-> FALSE, thrown |-> JsError(InvalidResponseMessage)]

-----------------------------------------------------------------------------
(* The App component *)

\* err instanceof Error ? err.message : 'An unknown error occurred.'
ErrorMessage(thrown) ==
  IF thrown.isError THEN thrown.message ELSE <<"An unknown error occurred.">>

\* `Failed to analyze the image. ${errorMessage}`
FailureText(thrown) == <<"Failed to analyze the image. ">> \o ErrorMessage(thrown)

\* renderContent: the start screen, else the image view
StartScreenShown == imageFile = Null \/ imageUrl = Null
ImageViewShown == ~StartScreenShown

\* {error && ( ... Try Again ... )} inside the image view
RetryShown == ImageViewShown /\ error # Null

\* obj.isFood as a condition: a missing property is undefined, which is falsy
IsFoodTruthy(obj) == "isFood" \in DOMAIN obj /\ obj.isFood

\* {analysis && !analysis.isFood && ( ... )}
ShowsNonFood(a) == a # Null /\ ~IsFoodTruthy(a)

\* ShowsResult without the isFood test
ShowsResult_AnyAnalysis(a) == a # Null

\* {analysis && analysis.isFood && ( ... )}
ShowsResult(a) == a # Null /\ IsFoodTruthy(a)

\* renderContent: the views it renders, the start screen or the blocks of the
\* analysis column of the image view
RenderedViews ==
  IF StartScreenShown THEN {"start"}
  ELSE (IF isLoading THEN {"loading"} ELSE {})
       \cup (IF error # Null THEN {"error"} ELSE {})
       \cup (IF ShowsNonFood(analysis) THEN {"non-food"} ELSE {})
       \cup (IF ShowsResult(analysis) THEN {"result"} ELSE {})

\* URL.revokeObjectURL(u)
RevokeObjectURL(urls, u) == [urls EXCEPT ![u] = @ + 1]

\* EffectCleanup without the revokeObjectURL call
EffectCleanup_Leak(urls, prev) == urls

\* the cleanup the effect run for `prev` returned; a run that returned early has none
EffectCleanup(urls, prev) ==
  IF prev = Null THEN urls ELSE RevokeObjectURL(urls, calls[prev.id].url)

\* some earlier performAnalysis() has not settled yet
InFlightCalls == { i \in 1..Len(calls) : calls[i].pc # "done" }

\* RunEffect that creates the new object URL without the previous run's cleanup
RunEffect_NoCleanup(file) ==
  LET u == Len(objectUrls) + 1 IN
    /\ objectUrls' = Append(objectUrls, 0)
    /\ imageUrl' = [blob |-> u]
    /\ isLoading' = TRUE
    /\ error' = Null
    /\ analysis' = Null
    /\ calls' = Append([i \in 1..Len(calls) |-> [calls[i] EXCEPT !.result = Null]],
                        [file |-> file, url |-> u, pc |-> "encoding",
                         raced |-> InFlightCalls # {},
                         sent |-> 0, request |-> Null, result |-> Null])

\* RunEffect whose performAnalysis lacks setIsLoading(true)
RunEffect_NoLoading(file) ==
  LET u == Len(objectUrls) + 1 IN
    /\ objectUrls' = Append(EffectCleanup(objectUrls, imageFile), 0)
    /\ imageUrl' = [blob |-> u]
    /\ isLoading' = isLoading
    /\ error' = Null
    /\ analysis' = Null
    /\ calls' = Append([i \in 1..Len(calls) |-> [calls[i] EXCEPT !.result = Null]],
                        [file |-> file, url |-> u, pc |-> "encoding",
                         raced |-> InFlightCalls # {},
                         sent |-> 0, request |-> Null, result |-> Null])

\* The effect on [imageFile] for a new non-null file: the previous run's cleanup,
\* then createObjectURL, setImageUrl and performAnalysis() up to its first await.
RunEffect(file) ==
  LET u == Len(objectUrls) + 1 IN
    /\ objectUrls' = Append(EffectCleanup(objectUrls, imageFile), 0)
    /\ imageUrl' = [blob |-> u]
    /\ isLoading' = TRUE
    /\ error' = Null
    /\ analysis' = Null
    /\ calls' = Append([i \in 1..Len(calls) |-> [calls[i] EXCEPT !.result = Null]],
                        [file |-> file, url |-> u, pc |-> "encoding",
                         raced |-> InFlightCalls # {},
                         sent |-> 0, request |-> Null, result |-> Null])

Init ==
  /\ imageFile = Null
  /\ analysis = Null
  /\ isLoading = FALSE
  /\ error = Null
  /\ imageUrl = Null
  /\ calls = <<>>
  /\ objectUrls = <<>>
  /\ mounted = TRUE
  /\ lastSelection = NoSelection

\* handleFileSelect(files) with files[0] = a new File, reached from the start screen
SelectImage(choice) ==
  /\ mounted
  /\ StartScreenShown
  /\ Len(calls) < MaxFiles
  /\ LET file == [id |-> Len(calls) + 1, name |-> choice.name,
                  type |-> choice.type, content |-> choice.content]
     IN /\ imageFile' = file
        /\ RunEffect(file)
        /\ lastSelection' = [items |-> <<file>>]
  /\ UNCHANGED mounted

\* HasFile that only tests the list: if (files)
HasFile_AnyList(files) == files # Null

\* files && files[0]
HasFile(files) == files # Null /\ FileAt(files, 0) # Undefined

\* handleFileSelect(files) when the change or drop event carries no file;
\* explored, as SelectImage is, while the run may still select a file
SelectNoFile(files) ==
  /\ mounted
  /\ StartScreenShown
  /\ Len(calls) < MaxFiles
  /\ lastSelection' = files
  /\ IF HasFile(files)
       THEN /\ error' = Null
            /\ analysis' = Null
            /\ imageFile' = FileAt(files, 0)
            /\ UNCHANGED <<isLoading, imageUrl, calls, objectUrls, mounted>>
       ELSE UNCHANGED <<imageFile, analysis, isLoading, error, imageUrl, calls,
                        objectUrls, mounted>>

\* handleReset without setImageUrl(null)
Reset_KeepsUrl ==
  /\ mounted
  /\ ImageViewShown
  /\ imageFile' = Null
  /\ analysis' = Null
  /\ error' = Null
  /\ isLoading' = FALSE
  /\ objectUrls' = EffectCleanup(objectUrls, imageFile)
  /\ lastSelection' = NoSelection
  /\ UNCHANGED <<imageUrl, calls, mounted>>

\* handleReset, the "Upload New Photo" button of the image view
Reset ==
  /\ mounted
  /\ ImageViewShown
  /\ imageFile' = Null
  /\ imageUrl' = Null
  /\ analysis' = Null
  /\ error' = Null
  /\ isLoading' = FALSE
  /\ objectUrls' = EffectCleanup(objectUrls, imageFile)
  /\ lastSelection' = NoSelection
  /\ UNCHANGED <<calls, mounted>>

\* CopyFile that passes no blob parts: new File([], name, { type })
CopyFile_Empty(file, id) ==
  [id |-> id, name |-> file.name, type |-> file.type, content |-> <<>>]

\* new File([imageFile], imageFile.name, { type: imageFile.type })
CopyFile(file, id) ==
  [id |-> id, name |-> file.name, type |-> file.type, content |-> file.content]

\* the "Try Again" button
Retry ==
  /\ mounted
  /\ RetryShown
  /\ Len(calls) < MaxFiles
  /\ LET file == CopyFile(imageFile, Len(calls) + 1)
     IN /\ imageFile' = file
        /\ RunEffect(file)
  /\ lastSelection' = NoSelection
  /\ UNCHANGED mounted

\* the component unmounts: React runs the last effect's cleanup
Unmount ==
  /\ mounted
  /\ mounted' = FALSE
  /\ objectUrls' = EffectCleanup(objectUrls, imageFile)
  /\ lastSelection' = NoSelection
  /\ UNCHANGED <<imageFile, analysis, isLoading, error, imageUrl, calls>>

\* performAnalysis after the await: try / catch / finally
Settle(i, res) ==
  /\ analysis' = IF res.ok THEN res.value ELSE analysis
  /\ error' = IF res.ok THEN error ELSE [text |-> FailureText(res.thrown)]
  /\ isLoading' = FALSE
  /\ calls' = [calls EXCEPT ![i].pc = "done",
                            ![i].result = IF i = Len(calls) THEN res ELSE Null]
  /\ lastSelection' = NoSelection
  /\ UNCHANGED <<imageFile, imageUrl, objectUrls, mounted>>

\* EncodeStep that sends the request before it looks at the encoder's result
EncodeStep_SendFirst(i, outcome) ==
  LET part == FileToPart(outcome) IN
    /\ calls[i].pc = "encoding"
    /\ IF part.ok
         THEN /\ calls' = [calls EXCEPT ![i].pc = "upstream", ![i].sent = @ + 1,
                                         ![i].request = part.value]
              /\ lastSelection' = NoSelection
              /\ UNCHANGED <<imageFile, analysis, isLoading, error, imageUrl,
                             objectUrls, mounted>>
         ELSE /\ calls' = [calls EXCEPT ![i].pc = "done", ![i].sent = @ + 1,
                                         ![i].request = [mimeType |-> <<>>, data |-> <<>>]]
              /\ error' = [text |-> FailureText(part.thrown)]
              /\ isLoading' = FALSE
              /\ lastSelection' = NoSelection
              /\ UNCHANGED <<imageFile, analysis, imageUrl, objectUrls, mounted>>

\* fileToPart of call i ends with FileReader outcome `outcome`: the upstream
\* request is sent with the encoded part, or analyzeFoodImage rejects
EncodeStep(i, outcome) ==
  LET part == FileToPart(outcome) IN
    /\ calls[i].pc = "encoding"
    /\ IF part.ok
         THEN /\ calls' = [calls EXCEPT ![i].pc = "upstream", ![i].sent = @ + 1,
                                         ![i].request = part.value]
              /\ lastSelection' = NoSelection
              /\ UNCHANGED <<imageFile, analysis, isLoading, error, imageUrl,
                             objectUrls, mounted>>
         ELSE Settle(i, [ok |-> FALSE, thrown |-> part.thrown])

\* UpstreamStep that sends the request once more when generateContent rejects
UpstreamStep_RetryOnFailure(i, upstream) ==
  /\ calls[i].pc = "upstream"
  /\ IF upstream.rejected /\ calls[i].sent < 2
       THEN /\ calls' = [calls EXCEPT ![i].sent = @ + 1]
            /\ lastSelection' = NoSelection
            /\ UNCHANGED <<imageFile, analysis, isLoading, error, imageUrl,
                           objectUrls, mounted>>
       ELSE Settle(i, HandleUpstream(upstream))

\* generateContent of call i settles with `upstream`
UpstreamStep(i, upstream) ==
  /\ calls[i].pc = "upstream"
  /\ Settle(i, HandleUpstream(upstream))

EncodeDone(i) ==
  /\ mounted
  /\ \E outcome \in ReaderOutcomes(calls[i].file) : EncodeStep(i, outcome)

UpstreamDone(i) ==
  /\ mounted
  /\ \E upstream \in UpstreamOutcomes : UpstreamStep(i, upstream)

Next ==
  \/ \E choice \in FileChoices : SelectImage(choice)
  \/ \E files \in EmptySelections : SelectNoFile(files)
  \/ Reset
  \/ Retry
  \/ Unmount
  \/ \E i \in 1..Len(calls) : EncodeDone(i)
  \/ \E i \in 1..Len(calls) : UpstreamDone(i)

Spec == Init /\ [][Next]_vars

-----------------------------------------------------------------------------
(* The encoder on its own: one selected image, any content *)

\* Longest file content, in bytes.
MaxBytes == 4

\* byte values that exercise every bit of a base64 group
SampleBytes == {0, 77, 255}

EncTypes == { <<"image/png">>, <<"image/jpeg">> }

\* the image files handed to fileToPart
EncFiles ==
  { [id |-> 1, name |-> "photo", type |-> t, content |-> c] :
      t \in EncTypes,
      c \in UNION { [1..n -> SampleBytes] : n \in 0..MaxBytes } }

\* the state handleFileSelect and the effect leave: Loading, call 1 at fileToPart
EncInit ==
  \E file \in EncFiles :
    /\ imageFile = file
    /\ analysis = Null
    /\ isLoading = TRUE
    /\ error = Null
    /\ imageUrl = [blob |-> 1]
    /\ calls = << [file |-> file, url |-> 1, pc |-> "encoding", raced |-> FALSE,
                   sent |-> 0, request |-> Null, result |-> Null] >>
    /\ objectUrls = <<0>>
    /\ mounted = TRUE
    /\ lastSelection = [items |-> <<file>>]

EncNext ==
  \/ \E i \in 1..Len(calls) : EncodeDone(i)
  \/ \E i \in 1..Len(calls) : UpstreamDone(i)

EncSpec == EncInit /\ [][EncNext]_vars

-----------------------------------------------------------------------------
(* Vocabulary of the properties *)

CallIds == 1..Len(calls)

\* call i is the one started for the image that is selected now
IsCurrent(i) == imageFile # Null /\ calls[i].file = imageFile

\* this step settles call i
Completes(i) == calls[i].pc # "done" /\ calls'[i].pc = "done"

\* the state one settled call alone produces from Loading
AnalysisOf(res) == IF res.ok THEN res.value ELSE Null
ErrorOf(res) == IF res.ok THEN Null ELSE [text |-> FailureText(res.thrown)]

Loading == isLoading
Failed == error # Null /\ ~isLoading
Succeeded == analysis # Null /\ ~isLoading
Idle ==
  /\ imageFile = Null /\ imageUrl = Null
  /\ analysis = Null /\ error = Null /\ ~isLoading

-----------------------------------------------------------------------------
\* C1: when image B was selected while an earlier call was still in flight, then
\* once no call is in flight the result and the error are those of B's call alone.
C1_LatestRequestWins ==
  \A b \in CallIds :
    (IsCurrent(b) /\ calls[b].raced /\ InFlightCalls = {})
      => /\ analysis = AnalysisOf(calls[b].result)
         /\ error = ErrorOf(calls[b].result)

\* C2: a step that settles a call whose image is not the selected one leaves
\* analysis, error and isLoading as they were.
C2_StaleCompletionIgnored ==
  [][ \A i \in CallIds :
        (Completes(i) /\ ~IsCurrent(i)) => UNCHANGED <<analysis, error, isLoading>> ]_vars

\* C3: at most one of isLoading, error # null, analysis # null holds.
C3_OneLifecycleState ==
  /\ ~(isLoading /\ error # Null)
  /\ ~(isLoading /\ analysis # Null)
  /\ ~(error # Null /\ analysis # Null)

\* the body is not JSON, or is a JSON object without one of the required fields
MalformedBody(text) ==
  LET parsed == JsonParse(Trim(text)) IN
    \/ ~parsed.ok
    \/ parsed.value # Null /\ ~(RequiredFields \subseteq DOMAIN parsed.value)

\* C4: when the current call's response body is not valid JSON or omits a
\* required field, the step sets the malformed-response error and no result.
C4_MalformedResponseFails ==
  [][ \A i \in CallIds : \A u \in UpstreamOutcomes :
        ( /\ IsCurrent(i)
          /\ ~u.rejected /\ u.blockReason = "" /\ MalformedBody(u.text)
          /\ UpstreamStep(i, u) )
        => /\ error' = [text |-> FailureText(JsError(InvalidResponseMessage))]
           /\ analysis' = analysis ]_vars

\* the object URLs created and not revoked
LiveUrls == { u \in 1..Len(objectUrls) : objectUrls[u] = 0 }

\* this step is handleReset
ResetStep == imageFile # Null /\ imageFile' = Null

\* C5: Reset leads to Idle from whatever state and revokes the held preview URL,
\* which was live, once and no other; no URL is ever revoked twice, and while
\* no image is selected every URL created so far has been revoked.
C5_ResetReleasesOnce ==
  /\ [][ ResetStep =>
           LET held == calls[imageFile.id].url IN
             /\ Idle'
             /\ objectUrls[held] = 0
             /\ objectUrls' = [objectUrls EXCEPT ![held] = 1] ]_vars
  /\ [](\A u \in 1..Len(objectUrls) : objectUrls[u] <= 1)
  /\ [](imageFile = Null => LiveUrls = {})

\* a Reset was done after the only call succeeded
C5_Witness ==
  /\ mounted /\ Idle
  /\ Len(calls) = 1 /\ calls[1].pc = "done" /\ calls[1].result.ok
  /\ objectUrls = <<1>>

\* C6: the only object URL that can be live is the one created for the selected
\* image of the mounted component, so at most one is live.
C6_OneLivePreview ==
  /\ Cardinality(LiveUrls) <= 1
  /\ LiveUrls \subseteq
       (IF mounted /\ imageFile # Null THEN {calls[imageFile.id].url} ELSE {})

\* Retry created a second URL while the first one was held
C6_Witness ==
  /\ Len(calls) = 2 /\ IsCurrent(2) /\ ~calls[2].raced
  /\ calls[2].file.content = calls[1].file.content
  /\ imageUrl = [blob |-> 2]
  /\ objectUrls = <<1, 0>>

\* C7: when the current call's response carries block reason X, the step sets
\* an error that contains X, sets no result and ends the loading.
C7_BlockedReasonShown ==
  [][ \A i \in CallIds :
        (IsCurrent(i) /\ Completes(i)) => \A u \in UpstreamOutcomes :
        ( /\ ~u.rejected /\ u.blockReason # ""
          /\ UpstreamStep(i, u) )
        => /\ error' # Null
           /\ Contains(error'.text, <<u.blockReason>>)
           /\ analysis' = analysis
           /\ ~isLoading' ]_vars

\* the current call was blocked for SAFETY and the error says so
C7_Witness ==
  \E i \in CallIds :
    /\ IsCurrent(i) /\ calls[i].pc = "done" /\ ~calls[i].result.ok
    /\ calls[i].result.thrown = JsError(BlockedMessage("SAFETY"))
    /\ Failed
    /\ Contains(error.text, <<"SAFETY">>)

\* the human-readable cause a rejection value carries
CauseOf(thrown) == IF thrown.isError THEN thrown.message ELSE thrown.readerError

\* C8: whenever the current call fails, at encoding or upstream, the step sets
\* an error whose text contains the cause of the failure.
C8_FailureEmbedsCause ==
  [][ \A i \in CallIds :
        IsCurrent(i) =>
          /\ \A o \in ReaderOutcomes(calls[i].file) :
               (~FileToPart(o).ok /\ EncodeStep(i, o))
                 => /\ error' # Null
                    /\ Contains(error'.text, CauseOf(FileToPart(o).thrown))
          /\ \A u \in UpstreamOutcomes :
               (~HandleUpstream(u).ok /\ UpstreamStep(i, u))
                 => /\ error' # Null
                    /\ Contains(error'.text, CauseOf(HandleUpstream(u).thrown)) ]_vars

\* this step is handleFileSelect with a file
SelectStep == StartScreenShown /\ imageFile' # imageFile

\* the calls started before this step are where they were
EarlierCallsKeep ==
  /\ Len(calls') = Len(calls) + 1
  /\ \A i \in CallIds :
       /\ calls'[i].pc = calls[i].pc
       /\ calls'[i].file = calls[i].file
       /\ calls'[i].request = calls[i].request

\* C9: selecting a file puts the controller in Loading with no result and no
\* error, the file selected, and exactly one new call started for that file.
C9_SelectStartsLoading ==
  [][ SelectStep =>
        /\ \E choice \in FileChoices :
             /\ imageFile'.name = choice.name
             /\ imageFile'.type = choice.type
             /\ imageFile'.content = choice.content
        /\ isLoading' /\ analysis' = Null /\ error' = Null
        /\ EarlierCallsKeep
        /\ calls'[Len(calls')].file = imageFile'
        /\ calls'[Len(calls')].pc = "encoding" ]_vars

\* a second image was selected after a Reset, the first call settled
C9_Witness ==
  /\ Len(calls) = 2 /\ IsCurrent(2)
  /\ calls[1].pc = "done" /\ calls[2].pc = "encoding"
  /\ calls[2].file.content # calls[1].file.content
  /\ Loading /\ analysis = Null /\ error = Null

\* this step is the Try Again handler
RetryStep == RetryShown /\ imageFile' # imageFile /\ imageFile' # Null

\* C10: Try Again is offered only in Failed; it selects a new File with the
\* content, name and type of the failed one, clears the error, enters Loading,
\* starts exactly one call for the new File, revokes the old preview URL and
\* holds a fresh one.
C10_RetryReissuesSameImage ==
  /\ [](RetryShown => Failed)
  /\ [][ RetryStep =>
           LET old == calls[imageFile.id].url
               new == calls'[Len(calls')].url IN
             /\ imageFile'.id # imageFile.id
             /\ imageFile'.content = imageFile.content
             /\ imageFile'.name = imageFile.name
             /\ imageFile'.type = imageFile.type
             /\ isLoading' /\ analysis' = Null /\ error' = Null
             /\ EarlierCallsKeep
             /\ calls'[Len(calls')].file = imageFile'
             /\ calls'[Len(calls')].pc = "encoding"
             /\ new # old /\ imageUrl' = [blob |-> new]
             /\ objectUrls[old] = 0
             /\ objectUrls' = Append([objectUrls EXCEPT ![old] = 1], 0)
             /\ new = Len(objectUrls') ]_vars

\* the photo's call failed and Try Again started a call for a copy of it
C10_Witness ==
  /\ Len(calls) = 2 /\ IsCurrent(2)
  /\ calls[1].pc = "done" /\ calls[2].pc = "encoding"
  /\ calls[2].file.content = <<77, 97, 110>>
  /\ calls[2].file.content = calls[1].file.content
  /\ calls[2].file.name = calls[1].file.name
  /\ Loading /\ error = Null
  /\ objectUrls = <<1, 0>>

\* the response is not blocked and its body parses to an object with isFood false
NotFoodResponse(u) ==
  /\ ~u.rejected /\ u.blockReason = ""
  /\ LET parsed == JsonParse(Trim(u.text)) IN
       /\ parsed.ok /\ parsed.value # Null
       /\ "isFood" \in DOMAIN parsed.value /\ ~parsed.value.isFood

C12_ExactlyOneView ==
  /\ Cardinality(RenderedViews) = 1
  /\ "start" \in RenderedViews <=> (imageFile = Null \/ imageUrl = Null)

\* C13: the step that settles the current call of a controller in Loading ends
\* the loading in Succeeded or in Failed, never in a third state.
C13_LoadingEndsInOutcome ==
  [][ \A i \in CallIds :
        (IsCurrent(i) /\ Loading /\ Completes(i))
        => (~Loading' /\ (Succeeded' \/ Failed')) ]_vars

\* the response is not blocked and its body is a JSON object with every required field
ConformingResponse(u) ==
  /\ ~u.rejected /\ u.blockReason = ""
  /\ ~MalformedBody(u.text)
  /\ JsonParse(Trim(u.text)).value # Null

\* C14: when the current call's response conforms to the schema, the step
\* stores exactly the object the body denotes (Succeeded): the same fields with
\* the same values, and no friendlyAdvice when the body has none.
C14_ResultIsUpstreamObject ==
  [][ \A i \in CallIds :
        (IsCurrent(i) /\ Completes(i)) => \A u \in UpstreamOutcomes :
        (ConformingResponse(u) /\ UpstreamStep(i, u))
        => LET sent == JsonParse(Trim(u.text)).value IN
             /\ Succeeded'
             /\ DOMAIN analysis' = DOMAIN sent
             /\ \A f \in DOMAIN sent : analysis'[f] = sent[f]
             /\ (u.text = <<"{pancakes}", "\n">> =>
                   analysis' = PancakesJson /\ "friendlyAdvice" \notin DOMAIN analysis')
             /\ (u.text = <<"{donut}">> =>
                   analysis'.friendlyAdvice = "Enjoy in moderation.") ]_vars

\* the only call was answered with the pancakes object, stored without friendlyAdvice
C14_Witness ==
  /\ Len(calls) = 1 /\ IsCurrent(1) /\ calls[1].pc = "done"
  /\ Succeeded /\ error = Null
  /\ analysis = PancakesJson
  /\ "friendlyAdvice" \notin DOMAIN analysis

\* the number of generateContent requests sent so far, over all calls
RECURSIVE RequestsSent(_)
RequestsSent(cs) ==
  IF cs = <<>> THEN 0 ELSE Head(cs).sent + RequestsSent(Tail(cs))

\* C15: every analysis call is started by a SelectImage or a Retry and sends at
\* most one upstream request, so the requests sent never outnumber those user
\* actions; a request goes out only at the step that ends a call's fileToPart,
\* and a call that has settled (failed or not) never sends again.
C15_OneRequestPerUserAction ==
  [][ /\ calls' # calls => RequestsSent(calls') <= Len(calls')
      /\ \A i \in CallIds :
           /\ calls'[i].sent \in {calls[i].sent, 1}
           /\ calls[i].pc = "done" => calls'[i].sent = calls[i].sent
      /\ Len(calls') # Len(calls)
           => /\ SelectStep \/ RetryStep
              /\ Len(calls') = Len(calls) + 1
              /\ calls'[Len(calls')].sent = 0
      /\ \A i \in CallIds :
           calls'[i].sent # calls[i].sent
             => calls[i].pc = "encoding" /\ calls'[i].pc = "upstream" ]_vars

\* a first request failed, the user retried, and the retry sent the second request
C15_Witness ==
  /\ Len(calls) = 2
  /\ calls[1].pc = "done" /\ calls[1].sent = 1
  /\ calls[2].pc = "upstream" /\ calls[2].sent = 1
  /\ calls[2].file.name = calls[1].file.name
  /\ RequestsSent(calls) = 2

\* position of a base64 digit in the alphabet, -1 for any other token
B64Index(c) ==
  IF \E n \in 1..64 : B64Alphabet[n] = c
    THEN (CHOOSE n \in 1..64 : B64Alphabet[n] = c) - 1
    ELSE -1

\* the bytes of one base64 group of four; <<-1>> when the group is not base64
B64Group(q) ==
  LET a == B64Index(q[1])
      b == B64Index(q[2])
      c == B64Index(q[3])
      d == B64Index(q[4])
  IN IF a < 0 \/ b < 0 THEN <<-1>>
     ELSE IF q[3] = "=" /\ q[4] = "=" THEN << a * 4 + b \div 16 >>
     ELSE IF c < 0 THEN <<-1>>
     ELSE IF q[4] = "=" THEN << a * 4 + b \div 16, (b % 16) * 16 + c \div 4 >>
     ELSE IF d < 0 THEN <<-1>>
     ELSE << a * 4 + b \div 16, (b % 16) * 16 + c \div 4, (c % 4) * 64 + d >>

RECURSIVE Base64Bytes(_)
Base64Bytes(s) ==
  IF Len(s) = 0 THEN <<>>
  ELSE IF Len(s) < 4 THEN <<-1>>
  ELSE B64Group(SubSeq(s, 1, 4)) \o Base64Bytes(SubSeq(s, 5, Len(s)))

\* standard base64 decoding (RFC 4648): the bytes, or not ok when s is not base64
Base64Decode(s) ==
  LET bytes == Base64Bytes(s) IN
    IF \E k \in 1..Len(bytes) : bytes[k] < 0
      THEN [ok |-> FALSE]
      ELSE [ok |-> TRUE, bytes |-> bytes]

\* C16: for an image file with a declared type, a fileToPart that returns gives
\* the file's type as mimeType and a payload that base64-decodes to the file's
\* bytes; it does return whenever the reader loaded a non-empty file.
C16_EncoderRoundTrip ==
  [][ \A i \in CallIds : \A o \in ReaderOutcomes(calls[i].file) :
        (calls[i].file.type # <<>> /\ EncodeStep(i, o))
        => /\ (o.loaded /\ calls[i].file.content # <<>>) => calls'[i].request # Null
           /\ calls'[i].request # Null
                => /\ calls'[i].request.mimeType = calls[i].file.type
                   /\ Base64Decode(calls'[i].request.data)
                        = [ok |-> TRUE, bytes |-> calls[i].file.content] ]_vars

\* a JPEG of four bytes (one full base64 group and a padded one) was encoded
C16_Witness ==
  /\ Len(calls) = 1
  /\ calls[1].file.type = <<"image/jpeg">>
  /\ calls[1].file.content = <<255, 0, 77, 255>>
  /\ calls[1].request # Null
  /\ calls[1].request.mimeType = <<"image/jpeg">>
  /\ Len(calls[1].request.data) = 8
  /\ calls[1].request.data[7] = "=" /\ calls[1].request.data[6] # "="

\* C17: while the image view is shown, isLoading is true exactly when the call
\* started for the current imageFile has not settled yet.
C17_LoadingIffCurrentCallPending ==
  (mounted /\ ImageViewShown)
    => (isLoading <=> calls[imageFile.id].pc # "done")

\* C18: when fileToPart fails (read error, data URL without a payload part, or
\* no MIME type in its head) the call settles without having sent a request and,
\* if it is the current call, the controller is Failed with that cause; a
\* request is only ever sent by a step whose encoding succeeded.
C18_NoRequestWithoutEncoding ==
  [][ \A i \in CallIds :
        /\ (calls[i].pc = "encoding" /\ calls'[i].pc = "done")
             => /\ \E o \in ReaderOutcomes(calls[i].file) :
                     /\ EncodeStep(i, o) /\ ~FileToPart(o).ok
                     /\ IsCurrent(i)
                          => /\ Failed'
                             /\ error' = [text |-> FailureText(FileToPart(o).thrown)]
                /\ calls'[i].sent = 0 /\ calls'[i].request = Null
                /\ RequestsSent(calls') = RequestsSent(calls)
        /\ calls'[i].sent > calls[i].sent
             => /\ calls'[i].request # Null
                /\ \E o \in ReaderOutcomes(calls[i].file) :
                     EncodeStep(i, o) /\ FileToPart(o).ok ]_vars

\* the only call ended at the MIME type check: nothing was sent, the view is Failed
C18_Witness ==
  /\ Len(calls) = 1 /\ IsCurrent(1) /\ calls[1].pc = "done"
  /\ calls[1].sent = 0 /\ calls[1].request = Null
  /\ Failed
  /\ error = [text |-> <<"Failed to analyze the image. ",
                         "Could not parse MIME type from data URL">>]

EmptySelectionStep == lastSelection' \in EmptySelections

\* C20: a handleFileSelect call with null or an empty FileList changes nothing:
\* the five state fields keep their values, no object URL is created or
\* revoked, and no analysis call is started.
C20_EmptySelectionIsNoOp ==
  [][ EmptySelectionStep
        => /\ UNCHANGED <<imageFile, imageUrl, analysis, error, isLoading>>
           /\ UNCHANGED <<objectUrls, calls>> ]_vars

\* an empty FileList arrived on the start screen after a Reset: nothing is
\* selected, and the call the Reset left behind is still where it was
C20_Witness ==
  /\ lastSelection = [items |-> <<>>]
  /\ Len(calls) = 1 /\ calls[1].pc = "upstream"
  /\ imageFile = Null /\ imageUrl = Null
  /\ objectUrls = <<1>>

====
